---- MODULE Spec2Model ----
(***************************************************************************)
(* Model of the video-analysis orchestration layer:                        *)
(*   - the tool set of videoAnalysisAgent (analyzeVideo, getTranscript,    *)
(*     getSceneDescription, searchVideoContent, processVoiceCommand),      *)
(*   - the proxy route /api/video-analysis (POST and GET),                 *)
(*   - the analysis backend as a nondeterministic environment.             *)
(* Strings are sequences of one-character strings, so that URL building,   *)
(* URL parsing, percent-encoding and substring search are computed and     *)
(* not assumed.                                                            *)
(***************************************************************************)
EXTENDS Integers, Sequences, FiniteSets, TLC

(***************************************************************************)
(* Bounds of the model.                                                    *)
(***************************************************************************)
MaxSidLen == 2
MaxQueryLen == 2
MaxWords == 2
MaxFetches == 3

(***************************************************************************)
(* Strings.                                                                *)
(***************************************************************************)
\* The value of an optional string that is absent (undefined / null).  Its
\* single element is not a character, so it equals no string.
Null == <<"null">>

\* JavaScript truthiness of an optional string: absent and "" are falsy.
Truthy(s) == s # Null /\ s # <<>>

\* All strings over the characters cs of length at most n.
RECURSIVE StringsUpTo(_, _)
StringsUpTo(cs, n) ==
    IF n = 0 THEN {<<>>}
    ELSE LET shorter == StringsUpTo(cs, n - 1)
         IN  shorter \cup {Append(s, c) : s \in shorter, c \in cs}

\* Index of the first occurrence of character c in s, 0 when there is none.
RECURSIVE IndexFrom(_, _, _)
IndexFrom(s, c, i) ==
    IF i > Len(s) THEN 0 ELSE IF s[i] = c THEN i ELSE IndexFrom(s, c, i + 1)
IndexOf(s, c) == IndexFrom(s, c, 1)

\* String.prototype.includes: t occurs in s as a contiguous substring.
includes(s, t) ==
    \E i \in 1..(Len(s) - Len(t) + 1) : SubSeq(s, i, i + Len(t) - 1) = t

StartsWith(s, t) == Len(s) >= Len(t) /\ SubSeq(s, 1, Len(t)) = t

UpperLetters ==
    <<"A","B","C","D","E","F","G","H","I","J","K","L","M",
      "N","O","P","Q","R","S","T","U","V","W","X","Y","Z">>
LowerLetters ==
    <<"a","b","c","d","e","f","g","h","i","j","k","l","m",
      "n","o","p","q","r","s","t","u","v","w","x","y","z">>

\* The lower-case letter of each upper-case letter.
LowerOf ==
    [c \in {UpperLetters[k] : k \in 1..26} |->
        LowerLetters[CHOOSE k \in 1..26 : UpperLetters[k] = c]]

\* String.prototype.toLowerCase, character by character.
toLowerCase(s) ==
    [i \in 1..Len(s) |-> IF s[i] \in DOMAIN LowerOf THEN LowerOf[s[i]] ELSE s[i]]

\* Concatenation of a sequence of strings.
RECURSIVE Concat(_)
Concat(ss) == IF ss = <<>> THEN <<>> ELSE Head(ss) \o Concat(Tail(ss))

(***************************************************************************)
(* Percent-encoding.                                                       *)
(***************************************************************************)
\* The characters of the model that encodeURIComponent escapes, with their
\* escapes (UTF-8 byte in upper-case hex).  Letters, digits and - _ . ! ~ *
\* ' ( ) are left alone.
EscapedChars == {" ", "&", "+", "%", "=", "#", "?", "/"}
EscapeOf(c) ==
    CASE c = " " -> <<"%", "2", "0">>
      [] c = "&" -> <<"%", "2", "6">>
      [] c = "+" -> <<"%", "2", "B">>
      [] c = "%" -> <<"%", "2", "5">>
      [] c = "=" -> <<"%", "3", "D">>
      [] c = "#" -> <<"%", "2", "3">>
      [] c = "?" -> <<"%", "3", "F">>
      [] c = "/" -> <<"%", "2", "F">>

RECURSIVE encodeURIComponent(_)
encodeURIComponent(s) ==
    IF \A i \in 1..Len(s) : s[i] \notin EscapedChars THEN s
    ELSE (IF Head(s) \in EscapedChars THEN EscapeOf(Head(s)) ELSE <<Head(s)>>)
         \o encodeURIComponent(Tail(s))

\* Percent-decoding: every %XX that is a valid escape is replaced by its
\* character, in one pass; a % that starts no valid escape is kept.
RECURSIVE PercentDecode(_)
PercentDecode(s) ==
    IF \A i \in 1..Len(s) : s[i] # "%" THEN s
    ELSE IF /\ Head(s) = "%"
            /\ Len(s) >= 3
            /\ \E c \in EscapedChars : EscapeOf(c) = SubSeq(s, 1, 3)
         THEN <<CHOOSE c \in EscapedChars : EscapeOf(c) = SubSeq(s, 1, 3)>>
              \o PercentDecode(SubSeq(s, 4, Len(s)))
         ELSE <<Head(s)>> \o PercentDecode(Tail(s))

\* The URL parser escapes a space in a path or a query as %20.
RECURSIVE EscapeSpaces(_)
EscapeSpaces(s) ==
    IF \A i \in 1..Len(s) : s[i] # " " THEN s
    ELSE (IF Head(s) = " " THEN EscapeOf(" ") ELSE <<Head(s)>>)
         \o EscapeSpaces(Tail(s))

\* application/x-www-form-urlencoded decoding of a name or a value:
\* + becomes a space, then the percent-escapes are decoded.
FormDecode(s) ==
    PercentDecode([i \in 1..Len(s) |-> IF s[i] = "+" THEN " " ELSE s[i]])

(***************************************************************************)
(* URLs.                                                                   *)
(***************************************************************************)
\* new URL(u) / the URL a fetch sends: the fragment (from the first #) is
\* dropped, the query starts after the first ?, spaces are escaped.
ParseURL(u) ==
    LET h == IndexOf(u, "#")
        noFrag == IF h = 0 THEN u ELSE SubSeq(u, 1, h - 1)
        q == IndexOf(noFrag, "?")
    IN  [path  |-> EscapeSpaces(IF q = 0 THEN noFrag ELSE SubSeq(noFrag, 1, q - 1)),
         query |-> EscapeSpaces(IF q = 0 THEN <<>> ELSE SubSeq(noFrag, q + 1, Len(noFrag)))]

\* The pieces of s between the separators c.
RECURSIVE Split(_, _)
Split(s, c) ==
    LET i == IndexOf(s, c)
    IN  IF i = 0 THEN <<s>>
        ELSE <<SubSeq(s, 1, i - 1)>> \o Split(SubSeq(s, i + 1, Len(s)), c)

\* URLSearchParams of a query string: the list of decoded (name, value)
\* pairs, empty pieces skipped, a piece split at its first =.
ParsePair(piece) ==
    LET e == IndexOf(piece, "=")
    IN  [name  |-> FormDecode(IF e = 0 THEN piece ELSE SubSeq(piece, 1, e - 1)),
         value |-> FormDecode(IF e = 0 THEN <<>> ELSE SubSeq(piece, e + 1, Len(piece)))]

SearchParams(query) ==
    LET pieces == SelectSeq(Split(query, "&"), LAMBDA p : p # <<>>)
    IN  [i \in 1..Len(pieces) |-> ParsePair(pieces[i])]

\* URLSearchParams.get: the value of the first pair named name, else null.
RECURSIVE GetFrom(_, _, _)
GetFrom(params, name, i) ==
    IF i > Len(params) THEN Null
    ELSE IF params[i].name = name THEN params[i].value
    ELSE GetFrom(params, name, i + 1)
Get(params, name) == GetFrom(params, name, 1)

(***************************************************************************)
(* String literals of the source, as character sequences.                  *)
(***************************************************************************)
S_sessionId == <<"s","e","s","s","i","o","n","I","d">>
S_action == <<"a","c","t","i","o","n">>
S_timestamp == <<"t","i","m","e","s","t","a","m","p">>
S_query == <<"q","u","e","r","y">>
S_session_id == <<"s","e","s","s","i","o","n","_","i","d">>
S_transcript == <<"t","r","a","n","s","c","r","i","p","t">>
S_scenes == <<"s","c","e","n","e","s">>
S_comparison == <<"c","o","m","p","a","r","i","s","o","n">>
S_search == <<"s","e","a","r","c","h">>
RoutePath == <<"/","a","p","i","/","v","i","d","e","o","-","a","n","a","l","y","s","i","s">>
AnalyzePath == <<"/","a","p","i","/","a","n","a","l","y","z","e">>
StatusPath == <<"/","a","p","i","/","s","t","a","t","u","s","/">>
TranscriptPath == <<"/","a","p","i","/","t","r","a","n","s","c","r","i","p","t","/">>
ScenesPath == <<"/","a","p","i","/","s","c","e","n","e","s","/">>
ComparisonPath == <<"/","a","p","i","/","c","o","m","p","a","r","i","s","o","n","/">>
SearchPath == <<"/","a","p","i","/","s","e","a","r","c","h">>
Q_sessionId == <<"?","s","e","s","s","i","o","n","I","d","=">>
Q_session_id == <<"?","s","e","s","s","i","o","n","_","i","d","=">>
Q_timestamp == <<"?","t","i","m","e","s","t","a","m","p","=">>
A_action == <<"&","a","c","t","i","o","n","=">>
A_timestamp == <<"&","t","i","m","e","s","t","a","m","p","=">>
A_query == <<"&","q","u","e","r","y","=">>

(***************************************************************************)
(* JSON values and HTTP messages.                                          *)
(***************************************************************************)
\* The value of an absent field other than a session identifier.
Absent == "absent"

\* A JSON object with the fields this layer reads; kind "null" is the JSON
\* value null (reading a field of it throws), kind "invalid" is a response
\* text that is no JSON (parsing it throws).
ObjectBody(sid, st, data, err) ==
    [kind |-> "object", session_id |-> sid, status |-> st, data |-> data, error |-> err]
JsonNull ==
    [kind |-> "null", session_id |-> Null, status |-> Absent, data |-> Absent, error |-> Absent]
InvalidJson ==
    [kind |-> "invalid", session_id |-> Null, status |-> Absent, data |-> Absent, error |-> Absent]
ErrorBody(msg) == ObjectBody(Null, Absent, Absent, msg)

\* What the backend does with one request: the connection fails, or it
\* answers with an HTTP status and a body.
BackendFails == [net |-> "fail", status |-> 0, body |-> InvalidJson]
BackendAnswer(status, body) == [net |-> "ok", status |-> status, body |-> body]

\* A backend answers with one of the given bodies, or with null or a text
\* that is no JSON, under status 200, or with an error status and its own
\* error body, or not at all.
BackendErrorBody == ObjectBody(Null, Absent, Absent, "Session not found")
BackendOutcomes(bodies) ==
    {BackendFails}
    \cup {BackendAnswer(200, b) : b \in bodies \cup {JsonNull, InvalidJson}}
    \cup {BackendAnswer(s, BackendErrorBody) : s \in {404, 500}}

\* The body of a request: of a GET none, of a POST the start parameters or a
\* text that is no JSON.
NoRequestBody == [kind |-> "none", video_input |-> Absent]
StartRequestBody(videoUrl) == [kind |-> "object", video_input |-> videoUrl]
InvalidRequestBody == [kind |-> "invalid", video_input |-> Absent]

(***************************************************************************)
(* The proxy route (route.ts).                                             *)
(***************************************************************************)
\* Mutant: both catch clauses answer with the message of the POST handler.
RelayStartMessage(backend, failure) ==
    IF backend.net = "fail" \/ backend.body.kind = "invalid"
    THEN [status |-> 500, body |-> ErrorBody("Failed to start video analysis")]
    ELSE [status |-> 200, body |-> backend.body]

\* await fetch(backend); await response.json(); NextResponse.json(data),
\* with the catch clause of the handler: the parsed body is relayed, with
\* the default status of NextResponse.json.
Relay(backend, failure) ==
    IF backend.net = "fail" \/ backend.body.kind = "invalid"
    THEN [status |-> 500, body |-> ErrorBody(failure)]
    ELSE [status |-> 200, body |-> backend.body]

\* The request the backend receives for a URL the proxy fetches.
BackendRequest(method, endpoint, body) ==
    [method |-> method, url |-> ParseURL(endpoint), body |-> body]

\* POST handler.
POST(requestBody, backend) ==
    IF requestBody.kind = "invalid"
    THEN [response |-> [status |-> 500, body |-> ErrorBody("Failed to start video analysis")],
          requests |-> <<>>]
    ELSE [response |-> Relay(backend, "Failed to start video analysis"),
          requests |-> <<BackendRequest("POST", AnalyzePath, requestBody)>>]

\* Mutant: the timestamp is tested as a number, so that 0 is left out.
EndpointNumericTimestamp(searchParams) ==
    LET sessionId == Get(searchParams, S_sessionId)
        action == Get(searchParams, S_action)
        timestamp == Get(searchParams, S_timestamp)
        query == Get(searchParams, S_query)
        withTimestamp(e) ==
            IF Truthy(timestamp) /\ timestamp # <<"0">>
            THEN e \o Q_timestamp \o timestamp ELSE e
    IN  IF action = S_transcript THEN withTimestamp(TranscriptPath \o sessionId)
        ELSE IF action = S_scenes THEN withTimestamp(ScenesPath \o sessionId)
        ELSE IF action = S_comparison THEN ComparisonPath \o sessionId
        ELSE IF action = S_search
             THEN SearchPath \o Q_session_id \o sessionId \o A_query
                  \o encodeURIComponent(IF Truthy(query) THEN query ELSE <<>>)
        ELSE StatusPath \o sessionId

\* The backend endpoint the GET handler chooses.
Endpoint(searchParams) ==
    LET sessionId == Get(searchParams, S_sessionId)
        action == Get(searchParams, S_action)
        timestamp == Get(searchParams, S_timestamp)
        query == Get(searchParams, S_query)
        withTimestamp(e) == IF Truthy(timestamp) THEN e \o Q_timestamp \o timestamp ELSE e
    IN  IF action = S_transcript THEN withTimestamp(TranscriptPath \o sessionId)
        ELSE IF action = S_scenes THEN withTimestamp(ScenesPath \o sessionId)
        ELSE IF action = S_comparison THEN ComparisonPath \o sessionId
        ELSE IF action = S_search
             THEN SearchPath \o Q_session_id \o sessionId \o A_query
                  \o encodeURIComponent(IF Truthy(query) THEN query ELSE <<>>)
        ELSE StatusPath \o sessionId

\* Mutant: if (sessionId === null) instead of if (!sessionId).
GETNullOnly(requestUrl, backend) ==
    LET searchParams == SearchParams(ParseURL(requestUrl).query)
        sessionId == Get(searchParams, S_sessionId)
    IN  IF sessionId = Null
        THEN [response |-> [status |-> 400, body |-> ErrorBody("Session ID required")],
              requests |-> <<>>]
        ELSE [response |-> Relay(backend, "Failed to fetch analysis data"),
              requests |-> <<BackendRequest("GET", Endpoint(searchParams), NoRequestBody)>>]

\* GET handler.
GET(requestUrl, backend) ==
    LET searchParams == SearchParams(ParseURL(requestUrl).query)
        sessionId == Get(searchParams, S_sessionId)
    IN  IF ~Truthy(sessionId)
        THEN [response |-> [status |-> 400, body |-> ErrorBody("Session ID required")],
              requests |-> <<>>]
        ELSE [response |-> Relay(backend, "Failed to fetch analysis data"),
              requests |-> <<BackendRequest("GET", Endpoint(searchParams), NoRequestBody)>>]

(***************************************************************************)
(* The client's requests to the proxy.                                     *)
(***************************************************************************)
\* What happens to one request of a tool: the connection to the proxy fails
\* ("netfail"), or the proxy handles the request and its answer is parsed
\* ("ok") or cannot be parsed by the client ("badjson").
ClientFails == [client |-> "netfail", backend |-> BackendFails]
Envs(bodies) ==
    {ClientFails} \cup
    {[client |-> c, backend |-> b] :
        c \in {"ok", "badjson"}, b \in BackendOutcomes(bodies)}

\* await fetch(url, {method, body}); await response.json().
Fetch(method, url, requestBody, env) ==
    IF env.client = "netfail"
    THEN [threw |-> TRUE, status |-> 0, data |-> InvalidJson, requests |-> <<>>]
    ELSE LET r == IF method = "POST" THEN POST(requestBody, env.backend)
                  ELSE GET(url, env.backend)
         IN  [threw |-> env.client = "badjson", status |-> r.response.status,
              data |-> r.response.body, requests |-> r.requests]

(***************************************************************************)
(* Inputs and environment of the model.                                    *)
(***************************************************************************)
\* Session identifiers: "x" is an ordinary character, "&" one that has a
\* meaning in a URL.  Query strings and timestamps likewise.
SidChars == {"x", "&"}
SessionIds == StringsUpTo(SidChars, MaxSidLen)
QueryChars == {"q", " ", "&", "+", "%"}
Queries == StringsUpTo(QueryChars, MaxQueryLen)
Timestamps == {<<"0">>, <<"5">>}
VideoUrls == {"video1", "video2"}


\* Bodies the backend answers a start request with.
StartBodies ==
    {ObjectBody(s, "pending", Absent, Absent) : s \in SessionIds \cup {Null}}

\* Bodies the backend answers a status request with.
StatusBodies ==
    { ObjectBody(Null, "pending", Absent, Absent),
      ObjectBody(Null, "processing", Absent, Absent),
      ObjectBody(Null, Absent, Absent, Absent),
      ObjectBody(Null, "completed", "d1", Absent),
      ObjectBody(Null, "completed", Absent, Absent),
      ObjectBody(Null, "error", Absent, "boom"),
      ObjectBody(Null, "error", Absent, ""),
      ObjectBody(Null, "error", Absent, Absent) }

\* Bodies the backend answers a transcript, scenes or search request with.
PayloadBodies ==
    { ObjectBody(Null, Absent, "d1", Absent),
      ObjectBody(Null, Absent, "d2", Absent) }

(***************************************************************************)
(* State.                                                                  *)
(***************************************************************************)
VARIABLES
    op,           \* the operation invoked: a tool or a request to the proxy
    args,         \* its arguments
    pc,           \* its position: "idle", "loop", "poll", "done"
    startData,    \* analyzeVideo: the start response as parsed
    session_id,   \* analyzeVideo: the identifier of the start response
    attempts,     \* analyzeVideo: the attempt counter
    queries,      \* analyzeVideo: status queries issued
    waits,        \* analyzeVideo: waits of the polling interval completed
    answers,      \* analyzeVideo: status answers received and parsed
    allPending,   \* analyzeVideo: every answer so far had status 'pending'
    pendingBefore, \* analyzeVideo: every answer before the last one had
    lastAnswer,   \* analyzeVideo: the last status answer
    thrown,       \* an exception was raised inside the operation
    propagated,   \* an exception left the operation
    result,       \* the value the operation returned
    returns,      \* how many times the operation returned
    fetches,      \* requests the tools sent to the proxy
    calls,        \* retrieval operations invoked by processVoiceCommand
    backendCalls, \* requests the proxy sent to the backend
    backendReq,   \* the last of them
    backendResp,  \* what the backend did with it
    proxyResp,    \* the last response of the proxy
    inv,          \* concurrent invocations of analyzeVideo: their local state
    own,          \* the status answers each of them has received, in order
    display,      \* VideoAnalysisDisplay: sessionId, analysisData, loading
    mounted,      \* VideoAnalysisDisplay: its effect has run for the first time
    timers,       \* VideoAnalysisDisplay: the intervals set and not cleared
    inFlight,     \* VideoAnalysisDisplay: calls of fetchAnalysisData not yet finished
    started,      \* VideoAnalysisDisplay: calls of fetchAnalysisData so far
    writer        \* VideoAnalysisDisplay: the call that set analysisData last

vars ==
    <<op, args, pc, startData, session_id, attempts, queries, waits, answers,
      allPending, pendingBefore, lastAnswer, thrown, propagated, result, returns, fetches, calls,
      backendCalls, backendReq, backendResp, proxyResp, inv, own, display,
      mounted, timers, inFlight, started, writer>>

\* What the display keeps track of besides its state.
pollVars == <<mounted, timers, inFlight, started, writer>>

\* The variables of the concurrent invocations and of the display.
concVars == <<inv, own, display, pollVars>>

analyzeVars ==
    <<startData, session_id, attempts, queries, waits, answers, allPending,
      pendingBefore, lastAnswer>>

NoResult == [none |-> TRUE]
NoRequest == [method |-> "none", url |-> ParseURL(<<>>), body |-> NoRequestBody]
NoResponse == [status |-> 0, body |-> InvalidJson]

\* Two invocations of analyzeVideo in flight at the same time.
Invocations == {"first", "second"}

\* The local variables of an invocation: where it is, the identifier of its
\* start response, its attempt counter, the status queries it has issued
\* and the value it has returned.
NotStarted ==
    [pc |-> "idle", session_id |-> Null, attempts |-> 0, queries |-> 0,
     result |-> NoResult]

\* The session the concurrent invocations and the display work on.
ConcSession == <<"x">>

\* useState<AnalysisData | null>(null)
NoData == [none |-> TRUE]

\* No call of fetchAnalysisData: calls are numbered from 1 as they start.
NoCall == [id |-> 0, sessionId |-> Null]

Init ==
    /\ op = "none"
    /\ args = [none |-> TRUE]
    /\ pc = "idle"
    /\ startData = InvalidJson
    /\ session_id = Null
    /\ attempts = 0
    /\ queries = 0
    /\ waits = 0
    /\ answers = 0
    /\ allPending = TRUE
    /\ pendingBefore = TRUE
    /\ lastAnswer = InvalidJson
    /\ thrown = FALSE
    /\ propagated = FALSE
    /\ result = NoResult
    /\ returns = 0
    /\ fetches = 0
    /\ calls = <<>>
    /\ backendCalls = 0
    /\ backendReq = NoRequest
    /\ backendResp = BackendFails
    /\ proxyResp = NoResponse
    /\ inv = [i \in Invocations |-> NotStarted]
    /\ own = [i \in Invocations |-> <<>>]
    /\ display = [sessionId |-> ConcSession, analysisData |-> NoData, loading |-> FALSE]
    /\ mounted = FALSE
    /\ timers = {}
    /\ inFlight = {}
    /\ started = 0
    /\ writer = NoCall

\* The effect of one request of a tool on what the proxy and the backend saw.
Traffic(f, env) ==
    /\ fetches' = fetches + 1
    /\ backendCalls' = backendCalls + Len(f.requests)
    /\ backendReq' = IF f.requests = <<>> THEN backendReq ELSE f.requests[Len(f.requests)]
    /\ backendResp' = IF f.requests = <<>> THEN backendResp ELSE env.backend
    /\ proxyResp' = IF env.client = "netfail" THEN proxyResp
                    ELSE [status |-> f.status, body |-> f.data]

\* How a step of an operation ends: it goes on, returns a value, or an
\* exception leaves it.
Continue(sid) == [kind |-> "continue", value |-> NoResult, session_id |-> sid]
Return(value) == [kind |-> "return", value |-> value, session_id |-> Null]
Throw(exception) == [kind |-> "throw", value |-> [exception |-> exception], session_id |-> Null]

Finish(outcome) ==
    /\ pc' = IF outcome.kind = "continue" THEN "loop" ELSE "done"
    /\ result' = IF outcome.kind = "return" THEN outcome.value ELSE result
    /\ returns' = IF outcome.kind = "return" THEN returns + 1 ELSE returns
    /\ propagated' = (propagated \/ outcome.kind = "throw")

\* The exception of a request, if it raises one.
ExceptionOf(f) ==
    IF f.threw THEN "fetch or json rejected"
    ELSE IF f.data.kind = "null" THEN "TypeError: property of null"
    ELSE "none"

(***************************************************************************)
(* analyzeVideo.                                                           *)
(***************************************************************************)
maxAttempts == 60

\* Mutant: no catch clause, the exception leaves execute().
AnalyzeCatchRethrows(exception) == Throw(exception)

\* catch (error) { return { error: `Analysis error: ${error}` } }
AnalyzeCatch(exception) ==
    Return([error |-> "Analysis error: ${error}", exception |-> exception])

\* Mutant: if (session_id === undefined) instead of if (!session_id).
AfterStartUndefinedOnly(f) ==
    IF ExceptionOf(f) # "none" THEN AnalyzeCatch(ExceptionOf(f))
    ELSE IF f.data.session_id = Null THEN Return([error |-> "Failed to start analysis"])
    ELSE Continue(f.data.session_id)

\* The start request has been answered: lines 37-41.
AfterStart(f) ==
    IF ExceptionOf(f) # "none" THEN AnalyzeCatch(ExceptionOf(f))
    ELSE IF ~Truthy(f.data.session_id) THEN Return([error |-> "Failed to start analysis"])
    ELSE Continue(f.data.session_id)

\* Mutant: while (attempts <= maxAttempts).
LoopGuardInclusive(n) == n <= maxAttempts

\* Mutant: while (true), the ceiling is forgotten.
LoopGuardAlways(n) == TRUE

\* while (attempts < maxAttempts)
LoopGuard(n) == n < maxAttempts

\* Mutant: the 'completed' branch is missing.
AfterPollIgnoresCompleted(sid, f) ==
    IF ExceptionOf(f) # "none" THEN AnalyzeCatch(ExceptionOf(f))
    ELSE IF f.data.status = "error"
         THEN Return([error |-> IF f.data.error \notin {Absent, ""} THEN f.data.error
                                ELSE "Analysis failed"])
    ELSE Continue(sid)

\* Mutant: the backend's error message is dropped.
AfterPollGenericError(sid, f) ==
    IF ExceptionOf(f) # "none" THEN AnalyzeCatch(ExceptionOf(f))
    ELSE IF f.data.status = "completed"
         THEN Return([success |-> TRUE, sessionId |-> sid, analysis |-> f.data.data])
    ELSE IF f.data.status = "error" THEN Return([error |-> "Analysis failed"])
    ELSE Continue(sid)

\* Mutant: an answer with an error field counts as an error answer.
AfterPollErrorField(sid, f) ==
    IF ExceptionOf(f) # "none" THEN AnalyzeCatch(ExceptionOf(f))
    ELSE IF f.data.status = "completed"
         THEN Return([success |-> TRUE, sessionId |-> sid, analysis |-> f.data.data])
    ELSE IF f.data.status = "error" \/ f.data.error \notin {Absent, ""}
         THEN Return([error |-> IF f.data.error \notin {Absent, ""} THEN f.data.error
                                ELSE "Analysis failed"])
    ELSE Continue(sid)

\* A status request has been answered: lines 51-61.
AfterPoll(sid, f) ==
    IF ExceptionOf(f) # "none" THEN AnalyzeCatch(ExceptionOf(f))
    ELSE IF f.data.status = "completed"
         THEN Return([success |-> TRUE, sessionId |-> sid, analysis |-> f.data.data])
    ELSE IF f.data.status = "error"
         THEN Return([error |-> IF f.data.error \notin {Absent, ""} THEN f.data.error
                                ELSE "Analysis failed"])
    ELSE Continue(sid)

\* The URL of a status query.
StatusUrl(sid) == RoutePath \o Q_sessionId \o sid

\* execute() up to the start of the loop.
CallAnalyzeVideo ==
    /\ pc = "idle"
    /\ \E videoUrl \in VideoUrls, env \in Envs(StartBodies) :
         \E f \in {Fetch("POST", RoutePath, StartRequestBody(videoUrl), env)} :
         \E outcome \in {AfterStart(f)} :
             /\ op' = "analyzeVideo"
             /\ args' = [videoUrl |-> videoUrl]
             /\ Traffic(f, env)
             /\ thrown' = (ExceptionOf(f) # "none")
             /\ startData' = IF f.threw THEN startData ELSE f.data
             /\ session_id' = outcome.session_id
             /\ attempts' = 0
             /\ Finish(outcome)
    /\ UNCHANGED <<queries, waits, answers, allPending, pendingBefore, lastAnswer, calls>>
    /\ UNCHANGED concVars

\* Mutant: the first status query is sent without waiting.
AnalyzeWaitSkipsFirst ==
    /\ op = "analyzeVideo" /\ pc = "loop"
    /\ LoopGuard(attempts)
    /\ waits' = IF attempts = 0 THEN waits ELSE waits + 1
    /\ pc' = "poll"
    /\ UNCHANGED <<op, args, startData, session_id, attempts, queries, answers,
                   allPending, pendingBefore, lastAnswer, thrown, propagated, result, returns, fetches, calls,
                   backendCalls, backendReq, backendResp, proxyResp>>
    /\ UNCHANGED concVars

\* The loop is entered and the interval timer has fired.
AnalyzeWait ==
    /\ op = "analyzeVideo" /\ pc = "loop"
    /\ LoopGuard(attempts)
    /\ waits' = waits + 1
    /\ pc' = "poll"
    /\ UNCHANGED <<op, args, startData, session_id, attempts, queries, answers,
                   allPending, pendingBefore, lastAnswer, thrown, propagated, result, returns, fetches, calls,
                   backendCalls, backendReq, backendResp, proxyResp>>
    /\ UNCHANGED concVars

\* One status query, its answer, and the attempt counter, the query being
\* answered in one of the ways of envs.
AnalyzePollIn(envs) ==
    /\ op = "analyzeVideo" /\ pc = "poll"
    /\ \E env \in envs :
         \E f \in {Fetch("GET", StatusUrl(session_id), NoRequestBody, env)} :
         \E outcome \in {AfterPoll(session_id, f)} :
         \E parsed \in {ExceptionOf(f) = "none"} :
             /\ queries' = queries + 1
             /\ Traffic(f, env)
             /\ thrown' = (thrown \/ ~parsed)
             /\ answers' = IF parsed THEN answers + 1 ELSE answers
             /\ lastAnswer' = IF parsed THEN f.data ELSE lastAnswer
             /\ allPending' = IF parsed THEN allPending /\ f.data.status = "pending"
                              ELSE allPending
             /\ pendingBefore' = IF parsed THEN allPending ELSE pendingBefore
             /\ attempts' = IF outcome.kind = "continue" THEN attempts + 1 ELSE attempts
             /\ Finish(outcome)
    /\ UNCHANGED <<op, args, startData, session_id, waits, calls>>
    /\ UNCHANGED concVars

AnalyzePoll == AnalyzePollIn(Envs(StatusBodies))

\* The status query whose connection fails.  It can be taken exactly when
\* AnalyzePoll can.
AnalyzePollFails == AnalyzePollIn({ClientFails})

\* The loop is left: return { error: 'Analysis timeout' }.
AnalyzeTimeout ==
    /\ op = "analyzeVideo" /\ pc = "loop"
    /\ ~LoopGuard(attempts)
    /\ Finish(Return([error |-> "Analysis timeout"]))
    /\ UNCHANGED <<op, args, startData, session_id, attempts, queries, waits, answers,
                   allPending, pendingBefore, lastAnswer, thrown, fetches, calls, backendCalls, backendReq,
                   backendResp, proxyResp>>
    /\ UNCHANGED concVars

(***************************************************************************)
(* The retrieval tools.                                                    *)
(***************************************************************************)
\* `/api/video-analysis?sessionId=${sessionId}&action=...`, with
\* `&timestamp=${timestamp}` when timestamp !== undefined.
RetrievalUrl(sessionId, action, timestamp) ==
    RoutePath \o Q_sessionId \o sessionId \o A_action \o action
    \o (IF timestamp # Null THEN A_timestamp \o timestamp ELSE <<>>)

\* getTranscript.execute: the request it sends and the value it returns.
getTranscript(sessionId, timestamp, env) ==
    LET f == Fetch("GET", RetrievalUrl(sessionId, S_transcript, timestamp), NoRequestBody, env)
    IN  [fetch |-> f,
         value |-> IF f.threw THEN [error |-> "Failed to get transcript: ${error}"]
                   ELSE [success |-> TRUE, transcript |-> f.data]]

\* getSceneDescription.execute.
getSceneDescription(sessionId, timestamp, env) ==
    LET f == Fetch("GET", RetrievalUrl(sessionId, S_scenes, timestamp), NoRequestBody, env)
    IN  [fetch |-> f,
         value |-> IF f.threw THEN [error |-> "Failed to get scenes: ${error}"]
                   ELSE [success |-> TRUE, scenes |-> f.data]]

\* searchVideoContent.execute.
SearchUrl(sessionId, query) ==
    RoutePath \o Q_sessionId \o sessionId \o A_action \o S_search
    \o A_query \o encodeURIComponent(query)

searchVideoContent(sessionId, query, env) ==
    LET f == Fetch("GET", SearchUrl(sessionId, query), NoRequestBody, env)
    IN  [fetch |-> f,
         value |-> IF f.threw THEN [error |-> "Search failed: ${error}"]
                   ELSE [success |-> TRUE, results |-> f.data]]

\* compareAudioVisual.execute.
ComparisonUrl(sessionId) ==
    RoutePath \o Q_sessionId \o sessionId \o A_action \o S_comparison

compareAudioVisual(sessionId, env) ==
    LET f == Fetch("GET", ComparisonUrl(sessionId), NoRequestBody, env)
    IN  [fetch |-> f,
         value |-> IF f.threw THEN [error |-> "Failed to get comparison: ${error}"]
                   ELSE [success |-> TRUE, comparison |-> f.data]]

\* Mutant: a request that failed is sent once more before the tool gives up.
RetrievedRetries(r, env) ==
    /\ fetches' = fetches + (IF r.fetch.threw THEN 2 ELSE 1)
    /\ backendCalls' = backendCalls + Len(r.fetch.requests)
    /\ backendReq' = IF r.fetch.requests = <<>> THEN backendReq ELSE r.fetch.requests[1]
    /\ backendResp' = IF r.fetch.requests = <<>> THEN backendResp ELSE env.backend
    /\ proxyResp' = IF env.client = "netfail" THEN proxyResp
                    ELSE [status |-> r.fetch.status, body |-> r.fetch.data]
    /\ thrown' = r.fetch.threw
    /\ Finish(Return(r.value))

\* What one invocation of a retrieval tool leaves behind.
Retrieved(r, env) ==
    /\ Traffic(r.fetch, env)
    /\ thrown' = r.fetch.threw
    /\ Finish(Return(r.value))

CallGetTranscript ==
    /\ pc = "idle"
    /\ \E sessionId \in SessionIds, timestamp \in Timestamps \cup {Null},
          env \in Envs(PayloadBodies) :
         \E r \in {getTranscript(sessionId, timestamp, env)} :
             /\ op' = "getTranscript"
             /\ args' = [sessionId |-> sessionId, timestamp |-> timestamp]
             /\ Retrieved(r, env)
    /\ UNCHANGED <<analyzeVars, calls>>
    /\ UNCHANGED concVars

CallGetSceneDescription ==
    /\ pc = "idle"
    /\ \E sessionId \in SessionIds, timestamp \in Timestamps \cup {Null},
          env \in Envs(PayloadBodies) :
         \E r \in {getSceneDescription(sessionId, timestamp, env)} :
             /\ op' = "getSceneDescription"
             /\ args' = [sessionId |-> sessionId, timestamp |-> timestamp]
             /\ Retrieved(r, env)
    /\ UNCHANGED <<analyzeVars, calls>>
    /\ UNCHANGED concVars

CallCompareAudioVisual ==
    /\ pc = "idle"
    /\ \E sessionId \in SessionIds, env \in Envs(PayloadBodies) :
         \E r \in {compareAudioVisual(sessionId, env)} :
             /\ op' = "compareAudioVisual"
             /\ args' = [sessionId |-> sessionId]
             /\ Retrieved(r, env)
    /\ UNCHANGED <<analyzeVars, calls>>
    /\ UNCHANGED concVars

\* One retrieval tool invoked on its own.
CallSearchVideoContent ==
    /\ pc = "idle"
    /\ \E sessionId \in SessionIds, query \in Queries, env \in Envs(PayloadBodies) :
         \E r \in {searchVideoContent(sessionId, query, env)} :
             /\ op' = "searchVideoContent"
             /\ args' = [sessionId |-> sessionId, query |-> query]
             /\ Retrieved(r, env)
    /\ UNCHANGED <<analyzeVars, calls>>
    /\ UNCHANGED concVars

(***************************************************************************)
(* processVoiceCommand.                                                    *)
(***************************************************************************)
K_play == <<"p","l","a","y">>
K_resume == <<"r","e","s","u","m","e">>
K_pause == <<"p","a","u","s","e">>
K_stop == <<"s","t","o","p">>
K_describe == <<"d","e","s","c","r","i","b","e">>
K_transcript == <<"t","r","a","n","s","c","r","i","p","t">>
K_transcribe == <<"t","r","a","n","s","c","r","i","b","e">>

\* Mutant: 'describe' is tested before 'pause'.
BranchDescribeFirst(commandLower) ==
    IF includes(commandLower, K_play) \/ includes(commandLower, K_resume) THEN "play"
    ELSE IF includes(commandLower, K_describe) THEN "describe"
    ELSE IF includes(commandLower, K_pause) THEN "pause"
    ELSE IF includes(commandLower, K_stop) THEN "stop"
    ELSE IF includes(commandLower, K_transcript) \/ includes(commandLower, K_transcribe)
         THEN "transcript"
    ELSE "none"

\* The branch of the if-chain that a lower-cased command takes.
Branch(commandLower) ==
    IF includes(commandLower, K_play) \/ includes(commandLower, K_resume) THEN "play"
    ELSE IF includes(commandLower, K_pause) THEN "pause"
    ELSE IF includes(commandLower, K_stop) THEN "stop"
    ELSE IF includes(commandLower, K_describe) THEN "describe"
    ELSE IF includes(commandLower, K_transcript) \/ includes(commandLower, K_transcribe)
         THEN "transcript"
    ELSE "none"

NoFetch == <<>>
Call(tool, sessionId) == [tool |-> tool, sessionId |-> sessionId, timestamp |-> Null]

\* Mutant: the retrieval tool is invoked whether or not there is a session.
DelegateAlways(action, tool, sessionId, r) ==
    [value |-> [action |-> action, data |-> r.value],
     calls |-> <<Call(tool, sessionId)>>, fetch |-> <<r.fetch>>]

\* The describe and transcript branches: if (sessionId) { ... }.
Delegate(action, tool, sessionId, r) ==
    IF Truthy(sessionId)
    THEN [value |-> [action |-> action, data |-> r.value],
          calls |-> <<Call(tool, sessionId)>>, fetch |-> <<r.fetch>>]
    ELSE [value |-> [action |-> action, message |-> "No active session"],
          calls |-> <<>>, fetch |-> NoFetch]

\* Mutant: the play branch looks the scene up when there is a session.
processVoiceCommandPlayDescribes(command, sessionId, env) ==
    LET branch == Branch(toLowerCase(command))
        local(action, message) ==
            [value |-> [action |-> action, message |-> message],
             calls |-> <<>>, fetch |-> NoFetch]
    IN  CASE branch = "play" ->
                Delegate("play", "getSceneDescription", sessionId,
                         getSceneDescription(sessionId, Null, env))
          [] branch = "pause" -> local("pause", "Video paused")
          [] branch = "stop" -> local("stop", "Video stopped")
          [] branch = "describe" ->
                Delegate("describe", "getSceneDescription", sessionId,
                         getSceneDescription(sessionId, Null, env))
          [] branch = "transcript" ->
                Delegate("transcript", "getTranscript", sessionId,
                         getTranscript(sessionId, Null, env))
          [] OTHER ->
                [value |-> [error |-> "Command not recognized"],
                 calls |-> <<>>, fetch |-> NoFetch]

\* processVoiceCommand.execute: the value it returns, the retrieval tools it
\* invokes and the requests they send.
processVoiceCommand(command, sessionId, env) ==
    LET branch == Branch(toLowerCase(command))
        local(action, message) ==
            [value |-> [action |-> action, message |-> message],
             calls |-> <<>>, fetch |-> NoFetch]
    IN  CASE branch = "play" -> local("play", "Playing video")
          [] branch = "pause" -> local("pause", "Video paused")
          [] branch = "stop" -> local("stop", "Video stopped")
          [] branch = "describe" ->
                Delegate("describe", "getSceneDescription", sessionId,
                         getSceneDescription(sessionId, Null, env))
          [] branch = "transcript" ->
                Delegate("transcript", "getTranscript", sessionId,
                         getTranscript(sessionId, Null, env))
          [] OTHER ->
                [value |-> [error |-> "Command not recognized"],
                 calls |-> <<>>, fetch |-> NoFetch]

\* Commands: up to MaxWords of these words, one after the other.
Words ==
    { K_play, <<"R","e","s","u","m","e">>, K_pause, <<"S","T","O","P">>, K_describe,
      K_transcript, K_transcribe, <<"d","i","s">> }
Commands ==
    {Concat(ws) : ws \in UNION {[1..k -> Words] : k \in 0..MaxWords}}

CallProcessVoiceCommand ==
    /\ pc = "idle"
    /\ \E command \in Commands, sessionId \in SessionIds \cup {Null},
          env \in Envs(PayloadBodies) :
         \E r \in {processVoiceCommand(command, sessionId, env)} :
             /\ op' = "processVoiceCommand"
             /\ args' = [command |-> command, sessionId |-> sessionId]
             /\ calls' = r.calls
             /\ IF r.fetch = NoFetch
                THEN /\ thrown' = FALSE
                     /\ UNCHANGED <<fetches, backendCalls, backendReq, backendResp, proxyResp>>
                ELSE /\ thrown' = r.fetch[1].threw
                     /\ Traffic(r.fetch[1], env)
             /\ Finish(Return(r.value))
    /\ UNCHANGED analyzeVars
    /\ UNCHANGED concVars

(***************************************************************************)
(* Requests sent to the proxy by any client.                               *)
(***************************************************************************)
\* A read request: each query parameter is given or left out (Null).
ReadRequests ==
    [sessionId : SessionIds \cup {Null},
     action    : {S_transcript, S_scenes, S_comparison, S_search, <<"x">>, Null},
     timestamp : Timestamps \cup {Null},
     query     : {<<"q">>, Null}]

\* Its URL, the values written as they are.
ReadUrl(req) ==
    RoutePath \o <<"?">>
    \o (IF req.sessionId # Null THEN S_sessionId \o <<"=">> \o req.sessionId ELSE <<>>)
    \o (IF req.action # Null THEN A_action \o req.action ELSE <<>>)
    \o (IF req.timestamp # Null THEN A_timestamp \o req.timestamp ELSE <<>>)
    \o (IF req.query # Null THEN A_query \o req.query ELSE <<>>)

\* What one request to the proxy leaves behind.
Handled(r, backend) ==
    /\ proxyResp' = r.response
    /\ backendCalls' = backendCalls + Len(r.requests)
    /\ backendReq' = IF r.requests = <<>> THEN backendReq ELSE r.requests[1]
    /\ backendResp' = IF r.requests = <<>> THEN backendResp ELSE backend
    /\ Finish(Return(r.response))

ProxyGET ==
    /\ pc = "idle"
    /\ \E req \in ReadRequests, backend \in BackendOutcomes(StatusBodies \cup PayloadBodies) :
         \E r \in {GET(ReadUrl(req), backend)} :
             /\ op' = "GET"
             /\ args' = req
             /\ Handled(r, backend)
    /\ UNCHANGED <<analyzeVars, thrown, fetches, calls>>
    /\ UNCHANGED concVars

ProxyPOST ==
    /\ pc = "idle"
    /\ \E body \in {StartRequestBody(v) : v \in VideoUrls} \cup {InvalidRequestBody},
          backend \in BackendOutcomes(StartBodies) :
         \E r \in {POST(body, backend)} :
             /\ op' = "POST"
             /\ args' = [body |-> body]
             /\ Handled(r, backend)
    /\ UNCHANGED <<analyzeVars, thrown, fetches, calls>>
    /\ UNCHANGED concVars

(***************************************************************************)
(* Concurrent invocations of analyzeVideo and the display component.  Each *)
(* invocation of execute() has its own session_id and attempts (lines 37   *)
(* and 44 declare them inside the function); the component has its own     *)
(* analysisData and loading (lines 338-339).                               *)
(***************************************************************************)
\* The ways a status request is answered here: the backend's status is
\* 'pending', 'completed' or 'error', or the connection to the proxy fails.
ConcAnswers == {"pending", "completed", "error", "netfail"}
EnvOf(a) ==
    IF a = "netfail" THEN ClientFails
    ELSE [client |-> "ok",
          backend |-> BackendAnswer(200,
              ObjectBody(Null, a, IF a = "completed" THEN "d1" ELSE Absent,
                         IF a = "error" THEN "boom" ELSE Absent))]

\* The start request answered with the session, and the status request of
\* the session answered in each of the ways.
StartFetch ==
    Fetch("POST", RoutePath, StartRequestBody("video1"),
          [client |-> "ok",
           backend |-> BackendAnswer(200, ObjectBody(ConcSession, "pending", Absent, Absent))])
StatusFetch ==
    [a \in ConcAnswers |-> Fetch("GET", StatusUrl(ConcSession), NoRequestBody, EnvOf(a))]

\* The local state of an invocation after an outcome of one of its steps.
After(l, outcome) ==
    [l EXCEPT !.pc = IF outcome.kind = "continue" THEN "loop" ELSE "done",
              !.result = IF outcome.kind = "return" THEN outcome.value ELSE @]

\* Lines 26-45: the start request, its answer, attempts = 0.
StartStep(l, f) ==
    LET outcome == AfterStart(f)
    IN  [After(l, outcome) EXCEPT !.session_id = outcome.session_id, !.attempts = 0]

\* Line 48: the wait inside the loop.
WaitStep(l) == [l EXCEPT !.pc = "poll"]

\* Lines 50-63: a status query, its answer, attempts++.
PollStep(l, f) ==
    LET outcome == AfterPoll(l.session_id, f)
    IN  [After(l, outcome) EXCEPT
            !.queries = @ + 1,
            !.attempts = IF outcome.kind = "continue" THEN @ + 1 ELSE @]

\* Line 66: the loop is left.
TimeoutStep(l) == After(l, Return([error |-> "Analysis timeout"]))

Invoke(i) ==
    /\ inv[i].pc = "idle"
    /\ inv' = [inv EXCEPT ![i] = StartStep(inv[i], StartFetch)]
    /\ UNCHANGED <<own, display>>

Wait(i) ==
    /\ inv[i].pc = "loop"
    /\ LoopGuard(inv[i].attempts)
    /\ inv' = [inv EXCEPT ![i] = WaitStep(inv[i])]
    /\ UNCHANGED <<own, display>>

\* Mutant: attempts is declared outside execute(), one counter for all
\* invocations.
PollSharedAttempts(i) ==
    /\ inv[i].pc = "poll"
    /\ \E a \in ConcAnswers :
         \E l \in {PollStep(inv[i], StatusFetch[a])} :
             /\ inv' = [j \in Invocations |->
                          IF j = i THEN l
                          ELSE [inv[j] EXCEPT !.attempts = @ + l.attempts - inv[i].attempts]]
             /\ own' = [own EXCEPT ![i] = Append(@, a)]
    /\ UNCHANGED display

Poll(i) ==
    /\ inv[i].pc = "poll"
    /\ \E a \in ConcAnswers :
         /\ inv' = [inv EXCEPT ![i] = PollStep(inv[i], StatusFetch[a])]
         /\ own' = [own EXCEPT ![i] = Append(@, a)]
    /\ UNCHANGED display

TimeOut(i) ==
    /\ inv[i].pc = "loop"
    /\ ~LoopGuard(inv[i].attempts)
    /\ inv' = [inv EXCEPT ![i] = TimeoutStep(inv[i])]
    /\ UNCHANGED <<own, display>>

\* The three requests of Promise.all: all answered with a payload, or the
\* connection to the proxy failing.
ComponentAnswers == {"d1", "netfail"}
ComponentFetch(action, a) ==
    Fetch("GET", RetrievalUrl(ConcSession, action, Null), NoRequestBody,
          IF a = "netfail" THEN ClientFails
          ELSE [client |-> "ok",
                backend |-> BackendAnswer(200, ObjectBody(Null, Absent, a, Absent))])
ComponentFetches ==
    [action \in {S_transcript, S_scenes, S_comparison} |->
        [a \in ComponentAnswers |-> ComponentFetch(action, a)]]

\* fetchAnalysisData, started by the effect or by its interval timer: the
\* value of analysisData when it has run.
fetchAnalysisData(data, statusFetch, transcript, scenes, comparison) ==
    IF ExceptionOf(statusFetch) # "none" THEN data
    ELSE IF statusFetch.data.status = "completed" /\ statusFetch.data.data # Absent
         THEN [data |-> statusFetch.data.data]
    ELSE IF transcript.threw \/ scenes.threw \/ comparison.threw THEN data
    ELSE [status |-> statusFetch.data.status, transcript |-> transcript.data,
          scenes |-> scenes.data, comparison |-> comparison.data]

FetchAnalysisData ==
    /\ Truthy(display.sessionId)
    /\ \E a \in ConcAnswers, c \in ComponentAnswers :
         display' = [display EXCEPT
            !.analysisData =
                fetchAnalysisData(@, StatusFetch[a], ComponentFetches[S_transcript][c],
                                  ComponentFetches[S_scenes][c],
                                  ComponentFetches[S_comparison][c]),
            !.loading = FALSE]
    /\ UNCHANGED <<inv, own>>

\* Everything the operations of the other specifications write.
singleVars ==
    <<op, args, pc, startData, session_id, attempts, queries, waits, answers,
      allPending, pendingBefore, lastAnswer, thrown, propagated, result, returns, fetches, calls,
      backendCalls, backendReq, backendResp, proxyResp>>

NextConcurrent ==
    \/ \E i \in Invocations : Invoke(i) /\ UNCHANGED <<singleVars, pollVars>>
    \/ \E i \in Invocations : Wait(i) /\ UNCHANGED <<singleVars, pollVars>>
    \/ \E i \in Invocations : Poll(i) /\ UNCHANGED <<singleVars, pollVars>>
    \/ \E i \in Invocations : TimeOut(i) /\ UNCHANGED <<singleVars, pollVars>>
    \/ FetchAnalysisData /\ UNCHANGED <<singleVars, pollVars>>

(***************************************************************************)
(* VideoAnalysisDisplay: the effect on sessionId, its interval timer, and  *)
(* the calls of fetchAnalysisData it starts, which finish in any order.    *)
(***************************************************************************)
\* The sessions the parent component selects.
DisplaySessions == {<<"x">>, <<"y">>}

\* The requests of a call of fetchAnalysisData for a session (lines 355,
\* 366-368), answered as in EnvOf and in ComponentFetch.
StatusFetchOf(sessionId, a) ==
    Fetch("GET", StatusUrl(sessionId), NoRequestBody, EnvOf(a))
ComponentFetchOf(sessionId, action, a) ==
    Fetch("GET", RetrievalUrl(sessionId, action, Null), NoRequestBody,
          IF a = "netfail" THEN ClientFails
          ELSE [client |-> "ok",
                backend |-> BackendAnswer(200, ObjectBody(Null, Absent, a, Absent))])

\* fetchAnalysisData is called with the sessionId of its closure, the
\* component being in state d: lines 349-352, up to the first await.
BeginFetch(d, sessionId) ==
    /\ started < MaxFetches
    /\ started' = started + 1
    /\ inFlight' = inFlight \cup {[id |-> started + 1, sessionId |-> sessionId]}
    /\ display' = [d EXCEPT !.loading = TRUE]

\* The body of the effect for a sessionId (lines 342-346), after the cleanup
\* of the effect that ran for the sessionId before (clearInterval).
Effect(d, before, sessionId) ==
    IF Truthy(sessionId)
    THEN /\ BeginFetch(d, sessionId)
         /\ timers' = (timers \ {before}) \cup {sessionId}
    ELSE /\ timers' = timers \ {before}
         /\ display' = d
         /\ UNCHANGED <<started, inFlight>>

\* The component is mounted: the effect runs for the first time.
Mount ==
    /\ ~mounted
    /\ mounted' = TRUE
    /\ Effect(display, Null, display.sessionId)
    /\ UNCHANGED writer

\* The parent selects another session (or none): the component is rendered
\* with the new sessionId, the cleanup and the effect run.
SetSessionId(sessionId) ==
    /\ mounted
    /\ sessionId # display.sessionId
    /\ Effect([display EXCEPT !.sessionId = sessionId], display.sessionId, sessionId)
    /\ UNCHANGED <<mounted, writer>>

\* An interval fires: setInterval(fetchAnalysisData, 5000) calls the
\* fetchAnalysisData of the render that set it.
TimerFires ==
    /\ \E sessionId \in timers : BeginFetch(display, sessionId)
    /\ UNCHANGED <<mounted, timers, writer>>

\* The value of data by which a call that did not set analysisData is told.
NotSet == [notSet |-> TRUE]

\* A call of fetchAnalysisData finishes, lines 356-387: its requests are
\* answered, it sets analysisData or not, and loading is false.
FetchFinishes ==
    /\ \E call \in inFlight, a \in ConcAnswers, c \in ComponentAnswers :
         \E data \in {fetchAnalysisData(NotSet, StatusFetchOf(call.sessionId, a),
                          ComponentFetchOf(call.sessionId, S_transcript, c),
                          ComponentFetchOf(call.sessionId, S_scenes, c),
                          ComponentFetchOf(call.sessionId, S_comparison, c))} :
             /\ inFlight' = inFlight \ {call}
             /\ display' = [display EXCEPT
                              !.analysisData = IF data = NotSet THEN @ ELSE data,
                              !.loading = FALSE]
             /\ writer' = IF data = NotSet THEN writer ELSE call
    /\ UNCHANGED <<mounted, timers, started>>

NextDisplay ==
    \/ Mount /\ UNCHANGED <<singleVars, inv, own>>
    \/ \E sessionId \in DisplaySessions \cup {Null} :
           SetSessionId(sessionId) /\ UNCHANGED <<singleVars, inv, own>>
    \/ TimerFires /\ UNCHANGED <<singleVars, inv, own>>
    \/ FetchFinishes /\ UNCHANGED <<singleVars, inv, own>>

(***************************************************************************)
(* Specifications.  A behaviour is one invocation: its first step chooses  *)
(* the operation, so the behaviours of Spec are those of SpecAnalyze and   *)
(* those of SpecTools.                                                     *)
(***************************************************************************)
NextAnalyze ==
    \/ CallAnalyzeVideo
    \/ AnalyzeWait
    \/ AnalyzePoll
    \/ AnalyzeTimeout

NextTools ==
    \/ CallGetTranscript
    \/ CallGetSceneDescription
    \/ CallCompareAudioVisual
    \/ CallSearchVideoContent
    \/ CallProcessVoiceCommand
    \/ ProxyGET
    \/ ProxyPOST

Next == NextAnalyze \/ NextTools

Spec == Init /\ [][Next]_vars

\* One invocation of analyzeVideo.
SpecAnalyze == Init /\ [][NextAnalyze]_vars

\* Two invocations of analyzeVideo and the polling of the display, all on
\* one session, their steps interleaved in any order.
SpecConcurrent == Init /\ [][NextConcurrent]_vars

\* The display component: its session selected and changed by the parent,
\* its timer firing and its requests answered in any order.
SpecDisplay == Init /\ [][NextDisplay]_vars

\* One invocation of analyzeVideo in which every request is answered or
\* fails and every timer fires: no step that can be taken is put off forever.
\* A status query can be answered exactly when its connection can fail, and
\* any answer to it ends the state in which it can, so weak fairness of
\* AnalyzePollFails says that no status query stays unanswered forever and
\* nothing about which answer it gets.
SpecAnalyzeFair ==
    /\ SpecAnalyze
    /\ WF_vars(CallAnalyzeVideo)
    /\ WF_vars(AnalyzeWait)
    /\ WF_vars(AnalyzePollFails)
    /\ WF_vars(AnalyzeTimeout)

\* One invocation of a retrieval tool, of processVoiceCommand, or one
\* request to the proxy.
SpecTools == Init /\ [][NextTools]_vars

(***************************************************************************)
(* Properties.                                                             *)
(***************************************************************************)
Analyzing == op = "analyzeVideo"
Started == Analyzing /\ Truthy(session_id)
Timeout == [error |-> "Analysis timeout"]

\* C1: while every status answer is 'pending' and no request fails,
\* analyzeVideo never issues more than 60 status queries, and when it has
\* returned it has issued exactly 60 and returned the timeout error.
C1_PendingSessionTimesOutAfter60 ==
    (Started /\ allPending /\ ~thrown) =>
        /\ queries <= maxAttempts
        /\ pc = "done" =>
             /\ queries = maxAttempts
             /\ answers = maxAttempts
             /\ result = Timeout
             /\ returns = 1

C1_Witness ==
    /\ Started /\ allPending /\ ~thrown /\ pc = "done"
    /\ queries = maxAttempts /\ result = Timeout

\* C2 (state part): when the k-th status answer is 'completed' and the k-1
\* answers before it were 'pending', analyzeVideo has returned, once, the
\* success value with its session identifier and the data of that answer,
\* and has issued exactly k status queries, with k <= 60.
C2_ReturnsOnCompleted ==
    (Started /\ answers >= 1 /\ pendingBefore /\ lastAnswer.status = "completed") =>
        /\ pc = "done"
        /\ returns = 1
        /\ result = [success |-> TRUE, sessionId |-> session_id,
                     analysis |-> lastAnswer.data]
        /\ queries = answers
        /\ answers = attempts + 1
        /\ answers <= maxAttempts

\* C2 (step part): once analyzeVideo has returned, it returns no second time
\* and no request is issued.
C2_QuietAfterReturn ==
    (Analyzing /\ returns >= 1) =>
        /\ returns' = returns
        /\ queries' = queries
        /\ fetches' = fetches
        /\ backendCalls' = backendCalls

\* C2: completion on the k-th answer gives k queries, one return of the
\* result payload, and no request after the return.
C2_CompletedOnAttemptK == []C2_ReturnsOnCompleted /\ [][C2_QuietAfterReturn]_vars

C2_Witness ==
    /\ Started /\ pc = "done" /\ pendingBefore
    /\ answers = maxAttempts /\ queries = maxAttempts
    /\ lastAnswer.status = "completed"
    /\ result = [success |-> TRUE, sessionId |-> session_id, analysis |-> "d1"]

\* C3: when a status answer has status 'error', analyzeVideo has returned
\* right after it, with the answer's error message if that is non-empty and
\* with 'Analysis failed' otherwise; the answer is that of the last query.
C3_ReturnsOnError ==
    (Started /\ answers >= 1 /\ lastAnswer.status = "error") =>
        /\ pc = "done"
        /\ returns = 1
        /\ result = [error |-> IF lastAnswer.error \in {Absent, ""}
                               THEN "Analysis failed" ELSE lastAnswer.error]
        /\ queries = answers

C3_Witness ==
    /\ Started /\ pc = "done" /\ answers > 1
    /\ lastAnswer.status = "error" /\ lastAnswer.error = "boom"
    /\ result = [error |-> "boom"]

\* C4: when the start response is an object whose session_id is missing or
\* empty, analyzeVideo has returned 'Failed to start analysis' and has
\* issued no status query and waited for no interval.
C4_NoSessionNoPolling ==
    (Analyzing /\ startData.kind = "object" /\ ~Truthy(startData.session_id)) =>
        /\ pc = "done"
        /\ returns = 1
        /\ result = [error |-> "Failed to start analysis"]
        /\ queries = 0
        /\ waits = 0
        /\ fetches = 1

C4_Witness ==
    /\ Analyzing /\ startData.kind = "object" /\ startData.session_id = <<>>
    /\ result = [error |-> "Failed to start analysis"]
    /\ queries = 0

\* C5 (state part): when a request of analyzeVideo has raised an exception,
\* the operation has returned an {error} value and no exception has left it.
C5_ExceptionIsReturned ==
    (Analyzing /\ thrown) =>
        /\ pc = "done"
        /\ ~propagated
        /\ returns = 1
        /\ DOMAIN result = {"error", "exception"}
        /\ result.error = "Analysis error: ${error}"

\* C5 (step part): after the exception no request is issued.
C5_QuietAfterException ==
    (Analyzing /\ thrown) =>
        /\ queries' = queries
        /\ fetches' = fetches
        /\ backendCalls' = backendCalls

\* C5: an exception at the start request or at a poll is turned into a
\* returned error, never propagated, and followed by no request.
C5_ExceptionsNeverPropagate ==
    []C5_ExceptionIsReturned /\ [][C5_QuietAfterException]_vars

C5_Witness ==
    /\ Analyzing /\ thrown /\ ~propagated /\ pc = "done"
    /\ queries >= 2 /\ answers = queries - 1
    /\ DOMAIN result = {"error", "exception"}

\* The keyword groups of the voice commands, in their priority order.
KeywordGroups ==
    << [action |-> "play",       keywords |-> {K_play, K_resume}],
       [action |-> "pause",      keywords |-> {K_pause}],
       [action |-> "stop",       keywords |-> {K_stop}],
       [action |-> "describe",   keywords |-> {K_describe}],
       [action |-> "transcript", keywords |-> {K_transcript, K_transcribe}] >>

\* Two characters are the same letter, whatever their case.
SameLetter(a, b) ==
    \/ a = b
    \/ a \in DOMAIN LowerOf /\ LowerOf[a] = b
    \/ b \in DOMAIN LowerOf /\ LowerOf[b] = a

\* The keyword occurs in the text, case ignored.
Occurs(text, keyword) ==
    \E i \in 1..(Len(text) - Len(keyword) + 1) :
        \A j \in 1..Len(keyword) : SameLetter(text[i + j - 1], keyword[j])

Matches(text, g) == \E k \in KeywordGroups[g].keywords : Occurs(text, k)

\* The first group with a keyword in the text, 0 when there is none.
RECURSIVE FirstGroupFrom(_, _)
FirstGroupFrom(text, g) ==
    IF g > Len(KeywordGroups) THEN 0
    ELSE IF Matches(text, g) THEN g
    ELSE FirstGroupFrom(text, g + 1)
FirstGroup(text) == FirstGroupFrom(text, 1)

Voice == op = "processVoiceCommand" /\ pc = "done"

\* C6: the action processVoiceCommand returns is that of the first keyword
\* group, in the order play/resume, pause, stop, describe,
\* transcript/transcribe, one of whose keywords occurs in the command, case
\* ignored; a command with none of them gives 'Command not recognized'.
C6_FirstKeywordGroupWins ==
    Voice =>
        LET g == FirstGroup(args.command)
        IN  IF g = 0 THEN result = [error |-> "Command not recognized"]
            ELSE "action" \in DOMAIN result /\ result.action = KeywordGroups[g].action

C6_Witness ==
    /\ Voice
    /\ args.command = K_describe \o K_pause
    /\ result = [action |-> "pause", message |-> "Video paused"]

\* C7: for a describe (transcript) command with a session identifier,
\* processVoiceCommand invokes getSceneDescription (getTranscript) once with
\* that identifier and returns its result as data under the action; without
\* a session identifier it sends no request and returns 'No active session'.
C7_DescribeAndTranscriptDelegate ==
    (Voice /\ FirstGroup(args.command) \in {4, 5}) =>
        LET g == FirstGroup(args.command)
            action == KeywordGroups[g].action
            tool == IF g = 4 THEN "getSceneDescription" ELSE "getTranscript"
            toolResult ==
                IF g = 4
                THEN (IF thrown THEN [error |-> "Failed to get scenes: ${error}"]
                      ELSE [success |-> TRUE, scenes |-> proxyResp.body])
                ELSE (IF thrown THEN [error |-> "Failed to get transcript: ${error}"]
                      ELSE [success |-> TRUE, transcript |-> proxyResp.body])
        IN  IF Truthy(args.sessionId)
            THEN /\ calls = <<[tool |-> tool, sessionId |-> args.sessionId,
                               timestamp |-> Null]>>
                 /\ fetches = 1
                 /\ result = [action |-> action, data |-> toolResult]
            ELSE /\ calls = <<>>
                 /\ fetches = 0
                 /\ backendCalls = 0
                 /\ result = [action |-> action, message |-> "No active session"]

C7_Witness ==
    /\ Voice
    /\ FirstGroup(args.command) = 4
    /\ args.sessionId = <<"x">>
    /\ Len(calls) = 1 /\ calls[1].tool = "getSceneDescription"
    /\ backendCalls = 1
    /\ result = [action |-> "describe",
                 data |-> [success |-> TRUE,
                           scenes |-> ObjectBody(Null, Absent, "d1", Absent)]]

ProxyRequest == op \in {"GET", "POST"} /\ pc = "done"

\* C8: when the backend has answered the forwarded request with JSON, the
\* proxy's response has the backend's status code and the backend's body.
C8_StatusAndBodyPassThrough ==
    (/\ ProxyRequest
     /\ backendCalls = 1
     /\ backendResp.net = "ok"
     /\ backendResp.body.kind # "invalid") =>
        /\ proxyResp.status = backendResp.status
        /\ proxyResp.body = backendResp.body

\* C9: a read request whose sessionId parameter is left out or empty is
\* answered 400 'Session ID required' and nothing is sent to the backend,
\* whatever the action.
C9_MissingSessionIs400 ==
    (op = "GET" /\ pc = "done" /\ args.sessionId \in {Null, <<>>}) =>
        /\ proxyResp = [status |-> 400, body |-> ErrorBody("Session ID required")]
        /\ result = proxyResp
        /\ backendCalls = 0

C9_Witness ==
    /\ op = "GET" /\ pc = "done"
    /\ args.sessionId = <<>> /\ args.action = S_search
    /\ proxyResp.status = 400
    /\ backendCalls = 0

\* C10: searchVideoContent(s, q), when its request reaches the proxy, makes
\* the proxy send exactly one request to the backend's search endpoint,
\* whose session_id decodes to s and whose query decodes to q, and the
\* backend's JSON is what the tool returns as results.
C10_SearchRoundTrip ==
    (op = "searchVideoContent" /\ pc = "done" /\ ~thrown /\ Truthy(args.sessionId)) =>
        /\ backendCalls = 1
        /\ backendReq.method = "GET"
        /\ backendReq.url.path = SearchPath
        /\ Get(SearchParams(backendReq.url.query), S_session_id) = args.sessionId
        /\ Get(SearchParams(backendReq.url.query), S_query) = args.query
        /\ (backendResp.net = "ok" /\ backendResp.body.kind # "invalid") =>
              result = [success |-> TRUE, results |-> backendResp.body]


\* C11: for a command whose first keyword group is play/resume, pause or
\* stop, processVoiceCommand returns that action with its fixed message,
\* invokes no retrieval tool and sends no request to the proxy or to the
\* backend, with or without a session identifier.
C11_PlaybackCommandsAreLocal ==
    (Voice /\ FirstGroup(args.command) \in {1, 2, 3}) =>
        LET g == FirstGroup(args.command)
            message == CASE g = 1 -> "Playing video"
                         [] g = 2 -> "Video paused"
                         [] g = 3 -> "Video stopped"
        IN  /\ result = [action |-> KeywordGroups[g].action, message |-> message]
            /\ calls = <<>>
            /\ fetches = 0
            /\ backendCalls = 0
            /\ proxyResp = NoResponse
            /\ returns = 1 /\ ~propagated

C11_Witness ==
    /\ Voice
    /\ args.command = <<"R","e","s","u","m","e">> \o K_describe
    /\ args.sessionId = <<"x">>
    /\ result = [action |-> "play", message |-> "Playing video"]
    /\ fetches = 0 /\ backendCalls = 0

Retrieving ==
    /\ op \in {"getTranscript", "getSceneDescription", "compareAudioVisual",
               "searchVideoContent"}
    /\ pc = "done"

\* The message of a retrieval tool's catch clause.
RetrievalError ==
    CASE op = "getTranscript" -> "Failed to get transcript: ${error}"
      [] op = "getSceneDescription" -> "Failed to get scenes: ${error}"
      [] op = "compareAudioVisual" -> "Failed to get comparison: ${error}"
      [] op = "searchVideoContent" -> "Search failed: ${error}"

\* The success wrapper of a retrieval tool around a payload.
RetrievalSuccess(payload) ==
    CASE op = "getTranscript" -> [success |-> TRUE, transcript |-> payload]
      [] op = "getSceneDescription" -> [success |-> TRUE, scenes |-> payload]
      [] op = "compareAudioVisual" -> [success |-> TRUE, comparison |-> payload]
      [] op = "searchVideoContent" -> [success |-> TRUE, results |-> payload]

\* C12: an invocation of getTranscript, getSceneDescription,
\* compareAudioVisual or searchVideoContent sends exactly one request to the
\* proxy and returns once, without an exception leaving it: the parsed
\* response under its success wrapper, or, when the request or the parsing
\* failed, an error.
C12_RetrievalIsOneRequest ==
    Retrieving =>
        /\ fetches = 1
        /\ backendCalls <= 1
        /\ returns = 1
        /\ ~propagated
        /\ result = IF thrown THEN [error |-> RetrievalError]
                    ELSE RetrievalSuccess(proxyResp.body)

C12_Witness ==
    /\ op = "compareAudioVisual" /\ pc = "done"
    /\ thrown
    /\ fetches = 1
    /\ result = [error |-> "Failed to get comparison: ${error}"]

\* The sessionId parameter of the read request the proxy was sent.
ReceivedSessionId == Get(SearchParams(ParseURL(ReadUrl(args)).query), S_sessionId)

\* The endpoint the claim describes for the read request in args.
ExpectedEndpoint ==
    LET sid == ReceivedSessionId
        stamped == args.action \in {S_transcript, S_scenes} /\ args.timestamp # Null
        prefix == CASE args.action = S_transcript -> TranscriptPath
                    [] args.action = S_scenes -> ScenesPath
                    [] args.action = S_comparison -> ComparisonPath
                    [] OTHER -> StatusPath
    IN  IF args.action = S_search
        THEN [path |-> SearchPath,
              session_id |-> sid,
              query |-> IF args.query = Null THEN <<>> ELSE args.query]
        ELSE [path |-> prefix \o sid,
              query |-> IF stamped THEN S_timestamp \o <<"=">> \o args.timestamp
                        ELSE <<>>]

\* C13: for a read request with a session identifier the proxy sends the
\* backend exactly one GET: to the transcript, scenes, comparison or search
\* endpoint of the session for these actions and to the status endpoint for
\* a missing or any other action, with the timestamp appended for transcript
\* and scenes exactly when the request has one (0 included) and never for
\* status or comparison.
C13_ActionChoosesEndpoint ==
    (op = "GET" /\ pc = "done" /\ Truthy(ReceivedSessionId)) =>
        /\ backendCalls = 1
        /\ backendReq.method = "GET"
        /\ backendReq.body = NoRequestBody
        /\ IF args.action = S_search
           THEN /\ backendReq.url.path = ExpectedEndpoint.path
                /\ Get(SearchParams(backendReq.url.query), S_session_id)
                      = ExpectedEndpoint.session_id
                /\ Get(SearchParams(backendReq.url.query), S_query)
                      = ExpectedEndpoint.query
           ELSE backendReq.url = ExpectedEndpoint

C13_Witness ==
    /\ op = "GET" /\ pc = "done"
    /\ args.sessionId = <<"x">>
    /\ args.action = S_scenes
    /\ args.timestamp = <<"0">>
    /\ backendCalls = 1
    /\ backendReq.url = [path |-> ScenesPath \o <<"x">>,
                         query |-> S_timestamp \o <<"=", "0">>]

\* C14: no exception leaves the proxy: a write request whose body cannot be
\* parsed, or whose forwarding fails or is answered with a body that cannot
\* be parsed, is answered 500 'Failed to start video analysis', and a read
\* request whose forwarding fails in one of these ways is answered 500
\* 'Failed to fetch analysis data'.
C14_ProxyFailuresAre500 ==
    ProxyRequest =>
        LET forwardFailed ==
                /\ backendCalls = 1
                /\ (backendResp.net = "fail" \/ backendResp.body.kind = "invalid")
            failed == forwardFailed \/ (op = "POST" /\ args.body.kind = "invalid")
            message == IF op = "POST" THEN "Failed to start video analysis"
                       ELSE "Failed to fetch analysis data"
        IN  /\ ~propagated
            /\ returns = 1
            /\ result = proxyResp
            /\ failed => proxyResp = [status |-> 500, body |-> ErrorBody(message)]

C14_Witness ==
    /\ op = "GET" /\ pc = "done"
    /\ backendCalls = 1
    /\ backendResp.net = "fail"
    /\ proxyResp = [status |-> 500, body |-> ErrorBody("Failed to fetch analysis data")]
    /\ ~propagated

\* C15: with every request answered and every timer firing, an invocation
\* of analyzeVideo returns; it never issues more than 60 status queries, its
\* attempt counter stays within 0..60, and once started it ends only with
\* the answer to a status query or at the ceiling of 60 attempts.
C15_AnalyzeVideoTerminates ==
    /\ [](attempts \in 0..maxAttempts /\ queries <= maxAttempts)
    /\ <>(Analyzing /\ pc = "done" /\ returns = 1)
    /\ [][(Analyzing /\ pc # "done" /\ pc' = "done") =>
             \/ queries' = queries + 1
             \/ attempts = maxAttempts /\ result' = Timeout]_vars

C15_Witness ==
    /\ Analyzing /\ pc = "done"
    /\ attempts = maxAttempts
    /\ queries = maxAttempts
    /\ result = Timeout

\* C17: a wait has been completed before every status query, the first one
\* included: the waits completed are as many as the queries issued, plus the
\* one wait that has completed while its query is still to be sent.
C17_WaitBeforeEveryQuery ==
    /\ [](Analyzing => waits = queries + (IF pc = "poll" THEN 1 ELSE 0))
    /\ [][queries' = queries + 1 => waits = queries + 1]_vars

C17_Witness ==
    /\ Analyzing /\ pc = "done"
    /\ queries = 1 /\ waits = 1
    /\ "success" \in DOMAIN result

NonTerminal(answer) == answer.status \notin {"completed", "error"}

\* C20: a status answer whose status is neither 'completed' nor 'error'
\* ('pending', any other value, or none as in the proxy's 400 and 500
\* bodies) adds one to attempts and the polling goes on; an invocation that
\* has returned after such an answer has had 60 of them and has returned the
\* timeout error.
C20_OtherStatusIsNonTerminal ==
    /\ [][(Analyzing /\ answers' = answers + 1 /\ NonTerminal(lastAnswer')) =>
             /\ attempts' = attempts + 1
             /\ pc' = "loop"
             /\ returns' = returns
             /\ result' = result]_vars
    /\ []((Started /\ pc = "done" /\ ~thrown /\ answers > 0 /\ NonTerminal(lastAnswer)) =>
             /\ result = Timeout
             /\ answers = maxAttempts
             /\ attempts = maxAttempts)

C20_Witness ==
    /\ Started /\ pc = "done"
    /\ ~thrown
    /\ lastAnswer = ErrorBody("Failed to fetch analysis data")
    /\ queries = maxAttempts
    /\ result = Timeout

\* C16: every status query of analyzeVideo that reaches the proxy makes the
\* proxy ask the backend for the status of exactly the session identifier of
\* the start response, at every attempt, and the sessionId of a successful
\* result is that identifier.
C16_SessionIdReusedVerbatim ==
    (Started /\ queries >= 1 /\ ~thrown) =>
        /\ session_id = startData.session_id
        /\ backendCalls = queries + 1
        /\ backendReq = [method |-> "GET",
                         url |-> [path |-> StatusPath \o session_id, query |-> <<>>],
                         body |-> NoRequestBody]
        /\ "success" \in DOMAIN result => result.sessionId = session_id

\* C19: when the proxy has answered a retrieval tool's request with 500
\* because its request to the backend failed, the tool's result is an error
\* object and has no success field.
C19_BackendFailureIsTopLevelError ==
    (/\ Retrieving
     /\ ~thrown
     /\ backendCalls = 1
     /\ (backendResp.net = "fail" \/ backendResp.body.kind = "invalid")
     /\ proxyResp.status = 500) =>
        /\ "error" \in DOMAIN result
        /\ "success" \notin DOMAIN result

\* analyzeVideo on its own, one turn of its loop: where an invocation in
\* local state l is when it has received the status answer a, or has left
\* the loop before asking for it.
SoloTurn(l, a) ==
    IF l.pc = "done" THEN l
    ELSE IF l.pc = "loop" /\ ~LoopGuard(l.attempts) THEN TimeoutStep(l)
    ELSE PollStep(IF l.pc = "loop" THEN WaitStep(l) ELSE l, StatusFetch[a])

RECURSIVE SoloRun(_, _, _, _)
\* The turns for the answers h[from], ..., h[to], one after the other.
SoloRun(l, h, from, to) ==
    IF l.pc = "done" \/ from > to THEN l
    ELSE IF from = to THEN SoloTurn(l, h[from])
    ELSE LET mid == (from + to) \div 2
         IN  SoloRun(SoloRun(l, h, from, mid), h, mid + 1, to)

\* An invocation on its own that has received the answers of h and nothing
\* else: it has left the loop if the loop's condition says so.
Alone(h) ==
    LET l == SoloRun(StartStep(NotStarted, StartFetch), h, 1, Len(h))
    IN  IF l.pc = "loop" /\ ~LoopGuard(l.attempts) THEN TimeoutStep(l) ELSE l

\* The sequences of answers an invocation can have received, and the
\* invocation on its own for each of them.
Pendings(n) == [k \in 1..n |-> "pending"]
Histories ==
    {Pendings(n) : n \in 0..maxAttempts}
    \cup {Append(Pendings(n), a) : n \in 0..(maxAttempts - 1), a \in ConcAnswers}
AloneOf == [h \in Histories |-> Alone(h)]

\* C18: whatever the other invocation and the display do in between, an
\* invocation of analyzeVideo has the attempt counter, the number of status
\* queries and, when it has returned, the result of an invocation that runs
\* on its own and receives the same status answers in the same order.
C18_InvocationsDoNotInterfere ==
    \A i \in Invocations :
        inv[i].pc # "idle" =>
            /\ own[i] \in Histories
            /\ inv[i].attempts = AloneOf[own[i]].attempts
            /\ inv[i].queries = AloneOf[own[i]].queries
            /\ inv[i].queries = Len(own[i])
            /\ inv[i].pc = "done" =>
                  /\ AloneOf[own[i]].pc = "done"
                  /\ inv[i].result = AloneOf[own[i]].result

C18_Witness ==
    /\ inv["first"].pc = "done" /\ inv["second"].pc = "done"
    /\ inv["first"].result = Timeout
    /\ inv["first"].queries = maxAttempts
    /\ inv["second"].queries = 2
    /\ inv["second"].result = [success |-> TRUE, sessionId |-> ConcSession, analysis |-> "d1"]
    /\ display.analysisData = [data |-> "d1"]


\* C21: in the display at most one interval is set at any time, and a call
\* of fetchAnalysisData that sets analysisData was made for the session
\* selected now and was started after the call that set it before: no call
\* for a session selected before, and no call older than the one whose data
\* is stored, overwrites the data.
C21_NewestFetchWins ==
    /\ [](Cardinality(timers) <= 1)
    /\ [][writer' # writer =>
             /\ writer'.sessionId = display.sessionId
             /\ writer'.id > writer.id]_vars

\* The part of C21 about the timer.
C21_AtMostOneTimer == Cardinality(timers) <= 1

\* The part of C21 about calls for a session selected before.
C21_NoWriteForOtherSession ==
    [][writer' # writer => writer'.sessionId = display.sessionId]_vars

\* The part of C21 about older calls of the same session.
C21_NoOlderWrite ==
    [][(writer' # writer /\ writer'.sessionId = writer.sessionId) =>
          writer'.id > writer.id]_vars

====
